---- MODULE Spec2Model ----
(***************************************************************************)
(* Model of `rover subgraph check` (src/command/subgraph/check.rs).        *)
(* One behaviour is one invocation of Check::run: the command's flags, the *)
(* git context and the environment (files, standard input) are fixed in    *)
(* Init, and each action is one statement of run.  The results of the      *)
(* external operations (client acquisition, remote check calls) are chosen *)
(* nondeterministically among the values of their Result type.             *)
(***************************************************************************)
EXTENDS Integers, Sequences, FiniteSets, TLC

\* ---------------------------------------------------------------- bounds
MaxCount == 1
NumPaths == 1

\* ------------------------------------------------------- Option / Result
None == [tag |-> "None"]
Some(v) == [tag |-> "Some", val |-> v]
Option(S) == {None} \cup {Some(v) : v \in S}

Ok(v) == [tag |-> "Ok", val |-> v]
Err(e) == [tag |-> "Err", err |-> e]

\* ------------------------------------------------------------ input sets
GraphRefs == {"my-graph@prod", "my-graph@current"}
SubgraphNames == {"accounts", "products"}
ProfileNames == {"default"}
GitContexts == {"commit-a", "commit-b"}
SchemaTexts == {"type Query { hello: String }", "type Account { id: ID! }"}
Paths == 1..NumPaths

\* FileDescriptorType: `-` is Stdin, anything else a file path.
Stdin == [tag |-> "Stdin"]
File(p) == [tag |-> "File", path |-> p]
FileDescriptorType == {Stdin} \cup {File(p) : p \in Paths}

\* Values the flag parsers let through: count >= 0, 0 <= percentage <= 100.
QueryCounts == 0..MaxCount
QueryPercentages == {0, 100}
ValidationPeriods == {"24h"}

\* The Check struct, as StructOpt hands it to run.
Check == [graph : GraphRefs,
          subgraph : SubgraphNames,
          profile_name : ProfileNames,
          schema : FileDescriptorType,
          query_count_threshold : Option(QueryCounts),
          query_percentage_threshold : Option(QueryPercentages),
          validation_period : Option(ValidationPeriods),
          asynchronous : BOOLEAN]

\* Results of the external operations.
AuthErrors == {"AuthError"}
TransportErrors == {"TransportError"}
AsyncResponses == {"workflow-1"}
SyncResponses == {"pass", "fail"}

VARIABLES self, git_context, files, stdin, pc, client, proposed_schema, res,
          stderr, calls, output, trace

vars == <<self, git_context, files, stdin, pc, client, proposed_schema, res,
          stderr, calls, output, trace>>

\* What an invocation never changes: its inputs and the files on disk.
inputs == <<self, git_context, files>>

\* ------------------------------------------------------------- helpers
\* read_file_descriptor: the whole file, or the whole of standard input.
read_file_descriptor(fd, fs, in) ==
    IF fd.tag = "Stdin"
    THEN IF in.content = "" THEN Err("EmptyInput") ELSE Ok(in.content)
    ELSE IF fs[fd.path] = None THEN Err("FileNotFound")
         ELSE IF fs[fd.path].val = "" THEN Err("EmptyInput")
         ELSE Ok(fs[fd.path].val)

\* The diagnostic line of run.
DiagnosticLine(s) ==
    <<"Checking the proposed schema for subgraph", s.subgraph, "against", s.graph>>

Event(op, r) == [op |-> op, ok |-> (r.tag = "Ok"),
                 err |-> IF r.tag = "Err" THEN r.err ELSE ""]

Init ==
    /\ self \in Check
    /\ git_context \in GitContexts
    /\ files \in [Paths -> Option(SchemaTexts \cup {""})]
    /\ stdin \in [content : SchemaTexts \cup {""}, consumed : {FALSE}]
    /\ pc = "get_client"
    /\ client = None
    /\ proposed_schema = None
    /\ res = None
    /\ stderr = <<>>
    /\ calls = <<>>
    /\ output = None
    /\ trace = <<>>

\* ------------------------------------------------------ request assembly
\* Variant: an unset threshold is sent as zero instead of staying unset.
CheckConfig_DefaultZero(s) ==
    [query_count_threshold |->
        IF s.query_count_threshold = None THEN Some(0) ELSE s.query_count_threshold,
     query_count_threshold_percentage |->
        IF s.query_percentage_threshold = None THEN Some(0) ELSE s.query_percentage_threshold,
     validation_period |-> s.validation_period]

CheckConfig(s) ==
    [query_count_threshold |-> s.query_count_threshold,
     query_count_threshold_percentage |-> s.query_percentage_threshold,
     validation_period |-> s.validation_period]

SubgraphCheckAsyncInput(s, git, schema) ==
    [graph_ref |-> s.graph,
     subgraph |-> s.subgraph,
     git_context |-> git,
     proposed_schema |-> schema,
     config |-> CheckConfig(s)]

SubgraphCheckInput(s, git, schema) ==
    [graph_ref |-> s.graph,
     proposed_schema |-> schema,
     subgraph |-> s.subgraph,
     git_context |-> git,
     config |-> CheckConfig(s)]

\* ------------------------------------------------------------- actions
\* Variant: the schema source is read before the client error is returned.
GetClient_ReadFirst ==
    /\ pc = "get_client"
    /\ \E r \in {Ok([profile |-> self.profile_name])} \cup {Err(e) : e \in AuthErrors} :
         IF r.tag = "Ok"
         THEN /\ trace' = Append(trace, Event("get_authenticated_client", r))
              /\ client' = Some(r.val)
              /\ pc' = "read_schema"
              /\ output' = output
              /\ stdin' = stdin
         ELSE /\ trace' = trace \o
                    <<Event("get_authenticated_client", r),
                      Event("read_file_descriptor",
                            read_file_descriptor(self.schema, files, stdin))>>
              /\ stdin' = IF self.schema.tag = "Stdin"
                          THEN [stdin EXCEPT !.consumed = TRUE]
                          ELSE stdin
              /\ client' = client
              /\ pc' = "Failed"
              /\ output' = r
    /\ UNCHANGED <<inputs, proposed_schema, res, stderr, calls>>

\* let client = client_config.get_authenticated_client(&self.profile_name)?;
GetClient ==
    /\ pc = "get_client"
    /\ \E r \in {Ok([profile |-> self.profile_name])} \cup {Err(e) : e \in AuthErrors} :
         /\ trace' = Append(trace, Event("get_authenticated_client", r))
         /\ IF r.tag = "Ok"
            THEN /\ client' = Some(r.val)
                 /\ pc' = "read_schema"
                 /\ output' = output
            ELSE /\ client' = client
                 /\ pc' = "Failed"
                 /\ output' = r
    /\ UNCHANGED <<inputs, stdin, proposed_schema, res, stderr, calls>>

\* Variant: a failed read is swallowed and the check goes on with no schema text.
ReadSchema_SwallowError ==
    /\ pc = "read_schema"
    /\ LET r == read_file_descriptor(self.schema, files, stdin) IN
         /\ trace' = Append(trace, Event("read_file_descriptor", r))
         /\ stdin' = IF self.schema.tag = "Stdin"
                     THEN [stdin EXCEPT !.consumed = TRUE]
                     ELSE stdin
         /\ proposed_schema' = IF r.tag = "Ok" THEN Some(r.val) ELSE Some("")
         /\ pc' = "eprintln"
         /\ output' = output
    /\ UNCHANGED <<inputs, client, res, stderr, calls>>

\* Variant: a failed read is tried a second time before the error is returned.
ReadSchema_Retry ==
    /\ pc = "read_schema"
    /\ LET r == read_file_descriptor(self.schema, files, stdin) IN
         /\ trace' = IF r.tag = "Ok"
                     THEN Append(trace, Event("read_file_descriptor", r))
                     ELSE trace \o <<Event("read_file_descriptor", r),
                                     Event("read_file_descriptor", r)>>
         /\ stdin' = IF self.schema.tag = "Stdin"
                     THEN [stdin EXCEPT !.consumed = TRUE]
                     ELSE stdin
         /\ IF r.tag = "Ok"
            THEN /\ proposed_schema' = Some(r.val)
                 /\ pc' = "eprintln"
                 /\ output' = output
            ELSE /\ proposed_schema' = proposed_schema
                 /\ pc' = "Failed"
                 /\ output' = r
    /\ UNCHANGED <<inputs, client, res, stderr, calls>>

\* Variant: the diagnostic line is skipped and the read goes straight to dispatch.
ReadSchema_SkipDiagnostic ==
    /\ pc = "read_schema"
    /\ LET r == read_file_descriptor(self.schema, files, stdin) IN
         /\ trace' = Append(trace, Event("read_file_descriptor", r))
         /\ stdin' = IF self.schema.tag = "Stdin"
                     THEN [stdin EXCEPT !.consumed = TRUE]
                     ELSE stdin
         /\ IF r.tag = "Ok"
            THEN /\ proposed_schema' = Some(r.val)
                 /\ pc' = "dispatch"
                 /\ output' = output
            ELSE /\ proposed_schema' = proposed_schema
                 /\ pc' = "Failed"
                 /\ output' = r
    /\ UNCHANGED <<inputs, client, res, stderr, calls>>

\* let proposed_schema = self.schema.read_file_descriptor("SDL", &mut stdin())?;
ReadSchema ==
    /\ pc = "read_schema"
    /\ LET r == read_file_descriptor(self.schema, files, stdin) IN
         /\ trace' = Append(trace, Event("read_file_descriptor", r))
         /\ stdin' = IF self.schema.tag = "Stdin"
                     THEN [stdin EXCEPT !.consumed = TRUE]
                     ELSE stdin
         /\ IF r.tag = "Ok"
            THEN /\ proposed_schema' = Some(r.val)
                 /\ pc' = "eprintln"
                 /\ output' = output
            ELSE /\ proposed_schema' = proposed_schema
                 /\ pc' = "Failed"
                 /\ output' = r
    /\ UNCHANGED <<inputs, client, res, stderr, calls>>

\* Variant: the diagnostic line is written twice.
Eprintln_Twice ==
    /\ pc = "eprintln"
    /\ stderr' = stderr \o <<DiagnosticLine(self), DiagnosticLine(self)>>
    /\ trace' = Append(trace, Event("eprintln", Ok("()")))
    /\ pc' = "dispatch"
    /\ UNCHANGED <<inputs, stdin, client, proposed_schema, res, calls, output>>

\* eprintln!("Checking the proposed schema for subgraph {} against {}", ..);
Eprintln ==
    /\ pc = "eprintln"
    /\ stderr' = Append(stderr, DiagnosticLine(self))
    /\ trace' = Append(trace, Event("eprintln", Ok("()")))
    /\ pc' = "dispatch"
    /\ UNCHANGED <<inputs, stdin, client, proposed_schema, res, calls, output>>

\* Variant: a failed async call is swallowed and an empty response is wrapped.
AsyncCheckRun_SwallowError ==
    /\ pc = "dispatch"
    /\ self.asynchronous
    /\ \E r \in {Ok(a) : a \in AsyncResponses} \cup {Err(e) : e \in TransportErrors} :
         /\ calls' = Append(calls,
                [op |-> "async_check::run",
                 input |-> SubgraphCheckAsyncInput(self, git_context, proposed_schema.val),
                 client |-> client.val])
         /\ trace' = Append(trace, Event("async_check::run", r))
         /\ res' = IF r.tag = "Ok" THEN Some(r.val) ELSE Some("")
         /\ pc' = "wrap"
         /\ output' = output
    /\ UNCHANGED <<inputs, stdin, client, proposed_schema, stderr>>

\* if self.asynchronous { let res = async_check::run(.., &client)?;
AsyncCheckRun ==
    /\ pc = "dispatch"
    /\ self.asynchronous
    /\ \E r \in {Ok(a) : a \in AsyncResponses} \cup {Err(e) : e \in TransportErrors} :
         /\ calls' = Append(calls,
                [op |-> "async_check::run",
                 input |-> SubgraphCheckAsyncInput(self, git_context, proposed_schema.val),
                 client |-> client.val])
         /\ trace' = Append(trace, Event("async_check::run", r))
         /\ IF r.tag = "Ok"
            THEN /\ res' = Some(r.val)
                 /\ pc' = "wrap"
                 /\ output' = output
            ELSE /\ res' = res
                 /\ pc' = "Failed"
                 /\ output' = r
    /\ UNCHANGED <<inputs, stdin, client, proposed_schema, stderr>>

\* Variant: the async response is wrapped in the sync variant.
AsyncCheckResponse_SyncVariant ==
    /\ pc = "wrap"
    /\ self.asynchronous
    /\ output' = Ok([variant |-> "CheckResponse", res |-> res.val])
    /\ trace' = Append(trace, Event("RoverOutput::AsyncCheckResponse", Ok("()")))
    /\ pc' = "Completed"
    /\ UNCHANGED <<inputs, stdin, client, proposed_schema, res, stderr, calls>>

\* Ok(RoverOutput::AsyncCheckResponse(res))
AsyncCheckResponse ==
    /\ pc = "wrap"
    /\ self.asynchronous
    /\ output' = Ok([variant |-> "AsyncCheckResponse", res |-> res.val])
    /\ trace' = Append(trace, Event("RoverOutput::AsyncCheckResponse", Ok("()")))
    /\ pc' = "Completed"
    /\ UNCHANGED <<inputs, stdin, client, proposed_schema, res, stderr, calls>>

\* Variant: a failed sync call is issued a second time before the error is returned.
CheckRun_Retry ==
    /\ pc = "dispatch"
    /\ ~self.asynchronous
    /\ \E r \in {Ok(a) : a \in SyncResponses} \cup {Err(e) : e \in TransportErrors} :
         LET call == [op |-> "check::run",
                      input |-> SubgraphCheckInput(self, git_context, proposed_schema.val),
                      client |-> client.val]
         IN /\ calls' = IF r.tag = "Ok" THEN Append(calls, call)
                                         ELSE calls \o <<call, call>>
            /\ trace' = Append(trace, Event("check::run", r))
            /\ IF r.tag = "Ok"
               THEN /\ res' = Some(r.val)
                    /\ pc' = "wrap"
                    /\ output' = output
               ELSE /\ res' = res
                    /\ pc' = "Failed"
                    /\ output' = r
    /\ UNCHANGED <<inputs, stdin, client, proposed_schema, stderr>>

\* Variant: after a failed sync call the dispatch step is entered once more.
CheckRun_Loop ==
    /\ pc = "dispatch"
    /\ ~self.asynchronous
    /\ \E r \in {Ok(a) : a \in SyncResponses} \cup {Err(e) : e \in TransportErrors} :
         /\ calls' = Append(calls,
                [op |-> "check::run",
                 input |-> SubgraphCheckInput(self, git_context, proposed_schema.val),
                 client |-> client.val])
         /\ trace' = Append(trace, Event("check::run", r))
         /\ IF r.tag = "Ok"
            THEN /\ res' = Some(r.val)
                 /\ pc' = "wrap"
                 /\ output' = output
            ELSE /\ res' = res
                 /\ pc' = IF calls = <<>> THEN "dispatch" ELSE "Failed"
                 /\ output' = IF calls = <<>> THEN output ELSE r
    /\ UNCHANGED <<inputs, stdin, client, proposed_schema, stderr>>

\* } else { let res = check::run(.., &client)?;
CheckRun ==
    /\ pc = "dispatch"
    /\ ~self.asynchronous
    /\ \E r \in {Ok(a) : a \in SyncResponses} \cup {Err(e) : e \in TransportErrors} :
         /\ calls' = Append(calls,
                [op |-> "check::run",
                 input |-> SubgraphCheckInput(self, git_context, proposed_schema.val),
                 client |-> client.val])
         /\ trace' = Append(trace, Event("check::run", r))
         /\ IF r.tag = "Ok"
            THEN /\ res' = Some(r.val)
                 /\ pc' = "wrap"
                 /\ output' = output
            ELSE /\ res' = res
                 /\ pc' = "Failed"
                 /\ output' = r
    /\ UNCHANGED <<inputs, stdin, client, proposed_schema, stderr>>

\* Ok(RoverOutput::CheckResponse(res))
CheckResponse ==
    /\ pc = "wrap"
    /\ ~self.asynchronous
    /\ output' = Ok([variant |-> "CheckResponse", res |-> res.val])
    /\ trace' = Append(trace, Event("RoverOutput::CheckResponse", Ok("()")))
    /\ pc' = "Completed"
    /\ UNCHANGED <<inputs, stdin, client, proposed_schema, res, stderr, calls>>

Next ==
    \/ GetClient
    \/ ReadSchema
    \/ Eprintln
    \/ AsyncCheckRun
    \/ AsyncCheckResponse
    \/ CheckRun
    \/ CheckResponse

Spec == Init /\ [][Next]_vars

\* Every external operation returns: a step that is enabled is taken.
FairSpec == Spec /\ WF_vars(Next)

\* ------------------------------------------------------ claim vocabulary
Terminal == pc \in {"Completed", "Failed"}

RemoteOps == {"async_check::run", "check::run"}

\* Positions of the trace at which `op` was performed.
Idx(op) == {i \in 1..Len(trace) : trace[i].op = op}

Count(op) == Cardinality(Idx(op))

\* Positions of the trace at which a step failed.
FailedIdx == {i \in 1..Len(trace) : ~trace[i].ok}

\* The invocation went past the dispatch statement.
ReachedDispatch == Idx("eprintln") # {} /\ pc # "dispatch"

\* ------------------------------------------------------------------ C1
\* C1: a success value carries the variant of the requested mode (async flag
\* set: AsyncCheckResponse, unset: CheckResponse), and only the remote
\* operation of the requested mode is ever called, also after a failure.
C1_VariantMatchesMode ==
    /\ output.tag = "Ok" =>
         output.val.variant =
            IF self.asynchronous THEN "AsyncCheckResponse" ELSE "CheckResponse"
    /\ \A i \in 1..Len(calls) :
         calls[i].op = IF self.asynchronous THEN "async_check::run" ELSE "check::run"
    /\ \A i \in 1..Len(trace) :
         trace[i].op \in RemoteOps =>
            trace[i].op = IF self.asynchronous THEN "async_check::run" ELSE "check::run"

C1_Witness ==
    /\ pc = "Completed"
    /\ self.asynchronous
    /\ output = Ok([variant |-> "AsyncCheckResponse", res |-> "workflow-1"])

\* ------------------------------------------------------------------ C2
\* C2: an invocation that went past dispatch has made exactly one remote
\* call, and no invocation ever makes more than one.
C2_ExactlyOneCall ==
    /\ Len(calls) <= 1
    /\ Count("async_check::run") + Count("check::run") <= 1
    /\ ReachedDispatch =>
         /\ Len(calls) = 1
         /\ Count("async_check::run") + Count("check::run") = 1
    /\ ~ReachedDispatch => calls = <<>>

C2_Witness ==
    /\ pc = "Failed"
    /\ ~self.asynchronous
    /\ Len(calls) = 1
    /\ calls[1].op = "check::run"

\* ------------------------------------------------------------------ C3
\* C3: when resolving the schema source fails, run returns that input error
\* and no remote check operation is called.
C3_ReadFailureNoCall ==
    \A i \in Idx("read_file_descriptor") :
        ~trace[i].ok =>
            /\ pc = "Failed"
            /\ output = Err(trace[i].err)
            /\ calls = <<>>
            /\ Count("async_check::run") + Count("check::run") = 0

C3_Witness ==
    /\ pc = "Failed"
    /\ self.schema.tag = "File"
    /\ files[self.schema.path] = None
    /\ output = Err("FileNotFound")
    /\ calls = <<>>

\* ------------------------------------------------------------------ C4
\* C4: the request of the remote call carries the graph reference, the
\* subgraph name, the schema text as returned by the read of the source, the caller's git
\* context and the three thresholds as flagged (unset stays unset), the same
\* in both modes.
C4_RequestCarriesInputs ==
    \A i \in 1..Len(calls) :
        LET in == calls[i].input IN
        /\ in.graph_ref = self.graph
        /\ in.subgraph = self.subgraph
        /\ in.proposed_schema = proposed_schema.val
        /\ in.git_context = git_context
        /\ in.config.query_count_threshold = self.query_count_threshold
        /\ in.config.query_count_threshold_percentage = self.query_percentage_threshold
        /\ in.config.validation_period = self.validation_period
        /\ DOMAIN in = {"graph_ref", "subgraph", "proposed_schema", "git_context", "config"}

C4_Witness ==
    /\ Len(calls) = 1
    /\ calls[1].op = "check::run"
    /\ self.graph = "my-graph@prod"
    /\ self.subgraph = "accounts"
    /\ calls[1].input.proposed_schema = "type Account { id: ID! }"
    /\ calls[1].input.config.query_count_threshold = Some(MaxCount)
    /\ calls[1].input.config.query_count_threshold_percentage = None
    /\ calls[1].input.config.validation_period = None

\* ------------------------------------------------------------------ C5
\* C5: a failed step is the last step of the invocation: run has failed with
\* that step's error, no step was performed twice, a completed invocation
\* has no failed step, and the result is a success exactly in Completed and
\* an error exactly in Failed.
C5_FailureEndsInvocation ==
    /\ \A i \in FailedIdx :
         /\ i = Len(trace)
         /\ pc = "Failed"
         /\ output = Err(trace[i].err)
    /\ \A i, j \in 1..Len(trace) : trace[i].op = trace[j].op => i = j
    /\ pc = "Completed" <=> output.tag = "Ok"
    /\ pc = "Failed" <=> output.tag = "Err"
    /\ pc = "Failed" => FailedIdx # {}
    /\ ~Terminal <=> output = None

C5_Witness ==
    /\ pc = "Failed"
    /\ Len(trace) = 4
    /\ trace[4].op = "async_check::run"
    /\ output = Err("TransportError")

\* ------------------------------------------------------------------ C6
\* The order of the statements of run.
StepOrder ==
    <<"get_authenticated_client", "read_file_descriptor", "eprintln",
      IF self.asynchronous THEN "async_check::run" ELSE "check::run",
      IF self.asynchronous THEN "RoverOutput::AsyncCheckResponse"
                           ELSE "RoverOutput::CheckResponse">>

\* C6 as stated: the schema source is resolved before the client is acquired,
\* and the client is never requested when the schema source did not resolve.
C6_Original ==
    \A i \in Idx("get_authenticated_client") :
        \E j \in Idx("read_file_descriptor") : j < i /\ trace[j].ok

\* C6 (amended): the steps occur in the order client acquisition, schema
\* resolution, diagnostic line, dispatch, wrapping; the client is acquired
\* before the schema source is resolved, and the schema source is never read
\* in an invocation whose client could not be acquired.
C6_Amended ==
    /\ Len(trace) <= Len(StepOrder)
    /\ \A i \in 1..Len(trace) : trace[i].op = StepOrder[i]
    /\ \A j \in Idx("read_file_descriptor") :
         \E i \in Idx("get_authenticated_client") : i < j /\ trace[i].ok
    /\ (\E i \in Idx("get_authenticated_client") : ~trace[i].ok) =>
         Count("read_file_descriptor") = 0
    /\ Idx("eprintln") # {} <=> stderr # <<>>

C6_Witness ==
    /\ pc = "Completed"
    /\ Len(trace) = 5
    /\ trace[1].op = "get_authenticated_client"
    /\ trace[2].op = "read_file_descriptor"

\* ------------------------------------------------------------------ C7
\* C7 as stated: the schema source is resolved exactly once per invocation,
\* never more than once and never zero times.
C7_Original ==
    /\ Count("read_file_descriptor") <= 1
    /\ Terminal => Count("read_file_descriptor") = 1

\* C7 (amended): the schema source is resolved at most once per invocation,
\* with no retry after a failed read; exactly once in every finished
\* invocation whose client acquisition succeeded, and not at all when client
\* acquisition failed.
C7_Amended ==
    /\ Count("read_file_descriptor") <= 1
    /\ Terminal =>
         (Count("read_file_descriptor") = 1 <=> client # None)
    /\ stdin.consumed =>
         self.schema = Stdin /\ Count("read_file_descriptor") = 1
    /\ proposed_schema # None => Count("read_file_descriptor") = 1

C7_Witness ==
    /\ pc = "Failed"
    /\ self.schema = Stdin
    /\ stdin.consumed
    /\ Count("read_file_descriptor") = 1
    /\ output = Err("EmptyInput")

\* ------------------------------------------------------------------ C8
\* C8: at most one diagnostic line is written; when a remote call is made the
\* line, naming the subgraph and the graph, was written exactly once before
\* the call, and it is written only after the schema source resolved.
C8_OneDiagnosticLine ==
    /\ Len(stderr) <= 1
    /\ Count("eprintln") = Len(stderr)
    /\ calls # <<>> =>
         /\ stderr = <<DiagnosticLine(self)>>
         /\ stderr[1][2] = self.subgraph
         /\ stderr[1][4] = self.graph
         /\ \A k \in Idx("async_check::run") \cup Idx("check::run") :
              \E j \in Idx("eprintln") : j < k
    /\ \A j \in Idx("eprintln") :
         /\ proposed_schema # None
         /\ \E i \in Idx("read_file_descriptor") : i < j /\ trace[i].ok

C8_Witness ==
    /\ pc = "wrap"
    /\ Len(calls) = 1
    /\ stderr = <<<<"Checking the proposed schema for subgraph", "products",
                   "against", "my-graph@current">>>>

\* ------------------------------------------------------------------ C9
\* Position of a statement in the single pass.
Rank(p) ==
    CASE p = "get_client" -> 0
      [] p = "read_schema" -> 1
      [] p = "eprintln" -> 2
      [] p = "dispatch" -> 3
      [] p = "wrap" -> 4
      [] OTHER -> 5

\* C9: every invocation eventually reaches a terminal state (Completed or
\* Failed), every step moves strictly forward in the pass, and nothing
\* happens once a terminal state is reached.
C9_SinglePass ==
    /\ <>Terminal
    /\ [][Rank(pc') > Rank(pc)]_vars
    /\ [][~Terminal]_vars

C9_Witness ==
    /\ pc = "Completed"
    /\ ~self.asynchronous
    /\ Len(trace) = 5
    /\ Len(calls) = 1

\* ----------------------------------------------------------------- C10
\* C10: when acquiring the client fails, run returns that error without
\* having read the schema source (standard input stays unconsumed), without
\* the diagnostic line and without a remote call.
C10_AuthFailureTouchesNothing ==
    \A i \in Idx("get_authenticated_client") :
        ~trace[i].ok =>
            /\ pc = "Failed"
            /\ output = Err(trace[i].err)
            /\ Count("read_file_descriptor") = 0
            /\ ~stdin.consumed
            /\ proposed_schema = None
            /\ stderr = <<>>
            /\ calls = <<>>

C10_Witness ==
    /\ pc = "Failed"
    /\ output = Err("AuthError")
    /\ self.schema = Stdin
    /\ ~stdin.consumed
    /\ Len(trace) = 1
====
